---- MODULE Spec2Model ----
(***************************************************************************)
(* Passport extraction service (backend/main.py, backend/model_inference.py)*)
(*                                                                         *)
(* The handlers of main.py are `async def` bodies without a single await,  *)
(* so one server process runs each handler from start to end before it     *)
(* takes the next request.  Several server processes (Workers) serve the   *)
(* same application: each has its own module global _extractor_instance,   *)
(* all share the directories uploads/ and uploads/extracted/.  POST        *)
(* /extract is modelled step by step (validate, save, convert, infer,      *)
(* respond, cleanup), so the steps of one process interleave with the      *)
(* handlers of the others; GET /health and DELETE /cleanup are one step.   *)
(*                                                                         *)
(* uuid4 values are modelled as fresh (a counter); file names are          *)
(* sequences of characters so that Path.suffix and str.lower are computed. *)
(* Confidences are percentages.  Bounding boxes are taken to have a        *)
(* non-empty integer crop.                                                 *)
(***************************************************************************)
EXTENDS Integers, Sequences, FiniteSets, TLC

VARIABLES
    uploads,              \* regular files directly in uploads/
    extracted,            \* files in uploads/extracted/
    _extractor_instance,  \* per process: the module global of model_inference.py
    loadCalls,            \* per process: number of load_model invocations so far
    requests,             \* number of POST /extract requests received so far
    pc,                   \* per process: position in the handler it runs
    endpoint,             \* per process: the endpoint of its current or last request
    file,                 \* per process: the request (filename, page_number, content)
    file_extension,       \* per process: local of extract_passport
    upload_path,          \* per process: local of extract_passport
    image_path,           \* per process: local of extract_passport
    results,              \* per process: local of extract_passport
    exc,                  \* per process: exception raised inside the try block
    response,             \* per process: response of its last request
    steps,                \* per process: history of the steps of the request
    eff                   \* per process: history of the request's side effects

vars == <<uploads, extracted, _extractor_instance, loadCalls, requests,
          pc, endpoint, file, file_extension, upload_path, image_path, results,
          exc, response, steps, eff>>

(***************************************************************************)
(* Bounds                                                                  *)
(***************************************************************************)
MaxRequests == 1      \* POST /extract requests in one behaviour
MaxLoadCalls == 2     \* load_model invocations per process
MaxDetections == 2    \* boxes returned by one inference call

Workers == {"w1", "w2"}

None == [none |-> TRUE]
EmptyDict == <<>>

(***************************************************************************)
(* Strings as sequences of characters                                      *)
(***************************************************************************)
UPPER == <<"A","B","C","D","E","F","G","H","I","J","K","L","M",
           "N","O","P","Q","R","S","T","U","V","W","X","Y","Z">>
LOWER == <<"a","b","c","d","e","f","g","h","i","j","k","l","m",
           "n","o","p","q","r","s","t","u","v","w","x","y","z">>

lower_char(c) ==
    IF \E i \in 1..26 : UPPER[i] = c
    THEN LOWER[CHOOSE i \in 1..26 : UPPER[i] = c]
    ELSE c

\* str.lower()
lower(s) == [i \in 1..Len(s) |-> lower_char(s[i])]

\* str.rfind("."), 1-based, 0 when there is no dot
rfind_dot(s) ==
    IF \E i \in 1..Len(s) : s[i] = "."
    THEN CHOOSE i \in 1..Len(s) : s[i] = "." /\ \A j \in (i+1)..Len(s) : s[j] # "."
    ELSE 0

\* pathlib: PurePath.suffix of a one-component name
suffix(name) ==
    LET i == rfind_dot(name)
    IN  IF 1 < i /\ i < Len(name) THEN SubSeq(name, i, Len(name)) ELSE <<>>

PDF  == <<".","p","d","f">>
JPG  == <<".","j","p","g">>
JPEG == <<".","j","p","e","g">>
PNG  == <<".","p","n","g">>
TIFF == <<".","t","i","f","f">>
BMP  == <<".","b","m","p">>

ALLOWED_EXTENSIONS == {PDF, JPG, JPEG, PNG, TIFF, BMP}

\* filename.lower().endswith(ext) instead of the suffix
is_allowed_file_endswith(filename) ==
    \E e \in ALLOWED_EXTENSIONS :
        /\ Len(filename) >= Len(e)
        /\ SubSeq(lower(filename), Len(filename) - Len(e) + 1, Len(filename)) = e

is_allowed_file(filename) == lower(suffix(filename)) \in ALLOWED_EXTENSIONS

(***************************************************************************)
(* Inputs                                                                  *)
(***************************************************************************)
PdfNames == { <<"a",".","P","d","f">> }
ImageNames == { <<"b",".","j","p","g">> }
OtherNames ==
    { <<"c",".","e","x","e">>,
      <<".","p","n","g">>,
      <<"d",".","p","d","f",".","g","i","f">> }

\* pages = 0: the bytes are no readable image and no valid PDF; only a PDF
\* has a page_number that matters, and only when it can be read
Uploads ==
    [filename : PdfNames, page_number : {1, 2}, pages : {1}]
        \cup [filename : PdfNames \cup ImageNames, page_number : {1}, pages : {0}]
        \cup [filename : ImageNames \cup OtherNames, page_number : {1}, pages : {1}]

\* one element of result.boxes: box.cls[0], box.conf[0], box.xyxy[0]
Box(c, p, b) == [cls |-> c, conf |-> p, xyxy |-> b]

ClassIds == {0, 1, 7}

\* the i-th box of a result: the detector lists boxes by falling confidence,
\* each at its own place of the page
BoxAt(i, c) == Box(c, 90 - 24 * i, <<10 * i, 10 * i + 2, 10 * i + 40, 10 * i + 50>>)

\* what self.model(image_path, conf=0.1) may do: return boxes, or raise
DetectorOutcomes ==
    { [raised |-> FALSE, boxes |-> [i \in 1..Len(cs) |-> BoxAt(i, cs[i])]] :
          cs \in UNION { [1..n -> ClassIds] : n \in 0..MaxDetections } }
        \cup { [raised |-> TRUE, boxes |-> <<>>] }

LoadOutcomes == { "yolo", "pytorch", "state_dict", "error" }
Devices == { "cpu" }

\* uuid.uuid4(): the k-th value drawn by request number n; all are distinct
uuid4(n, k) == <<n, k>>

(***************************************************************************)
(* model_inference.py                                                      *)
(***************************************************************************)

\* PassportExtractor.__init__ with a load_model that ended as `outcome`;
\* oid is the identity of the constructed object
PassportExtractor(outcome, dev, oid) ==
    [ model_type |-> outcome,
      model      |-> IF outcome = "state_dict" THEN "None" ELSE "loaded",
      device     |-> dev,
      oid        |-> oid ]

\* get_extractor(): inst is the module global, n the load_model calls so far.
\* Returns what it raised or returned, and the new global and call count.
get_extractor_always_new(inst, outcome, dev, n) ==
    IF outcome = "error"
    THEN [raised |-> TRUE, instance |-> None, loads |-> n + 1]
    ELSE [raised |-> FALSE, instance |-> PassportExtractor(outcome, dev, n + 1),
          loads |-> n + 1]

\* the global is assigned before load_model has succeeded
get_extractor_keeps_broken(inst, outcome, dev, n) ==
    IF inst = None
    THEN IF outcome = "error"
         THEN [raised |-> TRUE, instance |-> PassportExtractor("None", dev, n + 1),
               loads |-> n + 1]
         ELSE [raised |-> FALSE, instance |-> PassportExtractor(outcome, dev, n + 1),
               loads |-> n + 1]
    ELSE [raised |-> FALSE, instance |-> inst, loads |-> n]

get_extractor(inst, outcome, dev, n) ==
    IF inst = None
    THEN IF outcome = "error"
         THEN [raised |-> TRUE, instance |-> None, loads |-> n + 1]
         ELSE [raised |-> FALSE, instance |-> PassportExtractor(outcome, dev, n + 1),
               loads |-> n + 1]
    ELSE [raised |-> FALSE, instance |-> inst, loads |-> n]

\* field_mapping.get(class_id, f"field_{class_id}")
field_name_swapped(class_id) ==
    IF class_id = 0 THEN "signature"
    ELSE IF class_id = 1 THEN "photo"
    ELSE "field_" \o ToString(class_id)

field_name(class_id) ==
    IF class_id = 0 THEN "photo"
    ELSE IF class_id = 1 THEN "signature"
    ELSE "field_" \o ToString(class_id)

bbox_dict(box) ==
    [x1 |-> box.xyxy[1], y1 |-> box.xyxy[2], x2 |-> box.xyxy[3], y2 |-> box.xyxy[4]]

EXTRACTED_DIR == "uploads/extracted"

\* dict assignment d[k] = v
dict_set(d, k, v) == [x \in DOMAIN d \cup {k} |-> IF x = k THEN v ELSE d[x]]

\* the body of `for box in boxes` run on boxes[i..] in request number n;
\* acc the loop state: extracted_images, detected_fields, crop files written
RECURSIVE yolo_loop_first_wins(_, _, _, _)
yolo_loop_first_wins(boxes, i, n, acc) ==
    IF i > Len(boxes) THEN acc
    ELSE LET box == boxes[i]
             fname == field_name(box.cls)
             output_filename == [field |-> fname, hex |-> uuid4(n, i)]
             entry == [ path       |-> <<EXTRACTED_DIR, output_filename>>,
                        confidence |-> box.conf,
                        bbox       |-> bbox_dict(box) ]
         IN  yolo_loop_first_wins(boxes, i + 1, n,
                [ extracted_images |->
                      IF fname \in DOMAIN acc.extracted_images
                      THEN acc.extracted_images
                      ELSE dict_set(acc.extracted_images, fname, entry),
                  detected_fields |->
                      Append(acc.detected_fields,
                             [ field |-> fname, confidence |-> box.conf,
                               bbox |-> bbox_dict(box) ]),
                  written |-> acc.written \cup { output_filename } ])

RECURSIVE yolo_loop(_, _, _, _)
yolo_loop(boxes, i, n, acc) ==
    IF i > Len(boxes) THEN acc
    ELSE LET box == boxes[i]
             fname == field_name(box.cls)
             output_filename == [field |-> fname, hex |-> uuid4(n, i)]
             entry == [ path       |-> <<EXTRACTED_DIR, output_filename>>,
                        confidence |-> box.conf,
                        bbox       |-> bbox_dict(box) ]
         IN  yolo_loop(boxes, i + 1, n,
                [ extracted_images |-> dict_set(acc.extracted_images, fname, entry),
                  detected_fields |->
                      Append(acc.detected_fields,
                             [ field |-> fname, confidence |-> box.conf,
                               bbox |-> bbox_dict(box) ]),
                  written |-> acc.written \cup { output_filename } ])

\* PassportExtractor._extract_with_yolo for a detector that returned `boxes`
_extract_with_yolo(boxes, n) ==
    LET acc == yolo_loop(boxes, 1, n,
                   [ extracted_images |-> EmptyDict, detected_fields |-> <<>>,
                     written |-> {} ])
    IN  [ results |->
              [ success          |-> TRUE,
                extracted_images |-> acc.extracted_images,
                detections       |-> acc.detected_fields,
                model_type       |-> "yolo",
                message          |->
                    IF DOMAIN acc.extracted_images # {}
                    THEN <<"Extracted", Cardinality(DOMAIN acc.extracted_images), "items">>
                    ELSE <<"No photo or signature detected">> ],
          written |-> acc.written ]

_extract_with_pytorch ==
    [ success    |-> TRUE,
      fields     |-> [ passport_number |-> [value |-> "", confidence |-> 0],
                       surname         |-> [value |-> "", confidence |-> 0],
                       given_names     |-> [value |-> "", confidence |-> 0] ],
      model_type |-> "pytorch",
      note       |-> "Custom PyTorch inference - implement based on your model" ]

_extract_generic ==
    [ success    |-> TRUE,
      fields     |-> EmptyDict,
      model_type |-> "generic",
      note       |-> "Generic inference - please configure model-specific extraction" ]

failure(error) == [success |-> FALSE, error |-> error, fields |-> EmptyDict]

\* PassportExtractor.extract_fields: `readable` says whether cv2.imread
\* returns an image, `det` is what the detector does when it is called.
\* Returns the result dict, the crop files written, how often the detector
\* was called and the boxes it returned.
extract_fields(extractor, readable, det, n) ==
    IF ~readable
    THEN [results |-> failure("Failed to load image"), written |-> {}, detector |-> 0,
          boxes |-> <<>>]
    ELSE IF extractor.model_type = "yolo"
    THEN IF det.raised
         THEN [results |-> failure("detector error"), written |-> {}, detector |-> 1,
               boxes |-> <<>>]
         ELSE LET y == _extract_with_yolo(det.boxes, n)
              IN  [results |-> y.results, written |-> y.written, detector |-> 1,
                   boxes |-> det.boxes]
    ELSE IF extractor.model_type = "pytorch"
    THEN [results |-> _extract_with_pytorch, written |-> {}, detector |-> 0, boxes |-> <<>>]
    ELSE [results |-> _extract_generic, written |-> {}, detector |-> 0, boxes |-> <<>>]

(***************************************************************************)
(* main.py                                                                 *)
(***************************************************************************)

\* the directory entry of uploads/extracted inside uploads/ (not a file)
ExtractedDirEntry == [id |-> <<0, 0>>, ext |-> <<>>]

\* UPLOAD_DIR.glob("*")
glob_uploads(dir) == dir \cup { ExtractedDirEntry }

is_file(entry) == entry # ExtractedDirEntry

\* Path.with_suffix
with_suffix(path, ext) == [path EXCEPT !.ext = ext]

\* Path.name of a path under uploads/extracted
path_name(path) == path[2]

HTTPException(status_code, detail) ==
    [status |-> status_code, body |-> [detail |-> detail]]

JSONResponse(content) == [status |-> 200, body |-> content]

NoEffects ==
    [ staged |-> {}, crops |-> {}, conversions |-> 0, loads |-> 0, detector |-> 0,
      boxes |-> <<>>, returned |-> None, before |-> {}, crops_before |-> {} ]

Idle(w) == pc[w] \in {"idle", "done"}

\* the outcomes load_model can have when get_extractor calls it
LoadChoices(w) ==
    IF _extractor_instance[w] = None THEN LoadOutcomes ELSE { "yolo" }

\* cv2.imread(image_path) returns an image: the file is there and decodes.
\* A page rasterized by convert_pdf_to_image always decodes.
imread_ok(w) ==
    /\ image_path[w] \in uploads
    /\ (file_extension[w] = PDF \/ file[w].pages >= 1)

\* the locals of the handler that process w starts
NewFrame(w, ep, f, first) ==
    /\ endpoint' = [endpoint EXCEPT ![w] = ep]
    /\ file' = [file EXCEPT ![w] = f]
    /\ file_extension' = [file_extension EXCEPT ![w] = None]
    /\ upload_path' = [upload_path EXCEPT ![w] = None]
    /\ image_path' = [image_path EXCEPT ![w] = None]
    /\ results' = [results EXCEPT ![w] = None]
    /\ exc' = [exc EXCEPT ![w] = None]
    /\ steps' = [steps EXCEPT ![w] = first]

\* POST /extract arrives at process w
Receive(w) ==
    /\ Idle(w)
    /\ requests < MaxRequests
    /\ \E f \in Uploads :
         NewFrame(w, "extract",
                  [ filename |-> f.filename, page_number |-> f.page_number,
                    pages |-> f.pages, no |-> requests + 1 ],
                  <<"Received">>)
    /\ requests' = requests + 1
    /\ pc' = [pc EXCEPT ![w] = "received"]
    /\ response' = [response EXCEPT ![w] = None]
    /\ eff' = [eff EXCEPT ![w] = NoEffects]
    /\ UNCHANGED <<uploads, extracted, _extractor_instance, loadCalls>>

\* lines 136-146: validation, then the names of the staged file
Validate(w) ==
    /\ pc[w] = "received"
    /\ IF ~is_allowed_file(file[w].filename)
       THEN /\ response' = [response EXCEPT ![w] =
                   HTTPException(400, <<"File type not allowed. Supported", ALLOWED_EXTENSIONS>>)]
            /\ steps' = [steps EXCEPT ![w] = Append(@, "Rejected")]
            /\ pc' = [pc EXCEPT ![w] = "done"]
            /\ UNCHANGED <<file_extension, upload_path>>
       ELSE /\ file_extension' = [file_extension EXCEPT ![w] = lower(suffix(file[w].filename))]
            /\ upload_path' = [upload_path EXCEPT ![w] =
                   [id |-> uuid4(file[w].no, 0), ext |-> lower(suffix(file[w].filename))]]
            /\ steps' = [steps EXCEPT ![w] = Append(@, "Validated")]
            /\ pc' = [pc EXCEPT ![w] = "validated"]
            /\ UNCHANGED response
    /\ UNCHANGED <<uploads, extracted, _extractor_instance, loadCalls, requests,
                   endpoint, file, image_path, results, exc, eff>>

\* lines 149-159: save the upload; an image is used as it is
SaveUpload(w) ==
    /\ pc[w] = "validated"
    /\ \/ /\ uploads' = uploads \cup { upload_path[w] }
          /\ eff' = [eff EXCEPT ![w].staged = @ \cup { upload_path[w] }]
          /\ steps' = [steps EXCEPT ![w] = Append(@, "Saved")]
          /\ IF file_extension[w] = PDF
             THEN /\ pc' = [pc EXCEPT ![w] = "saved"]
                  /\ UNCHANGED image_path
             ELSE /\ pc' = [pc EXCEPT ![w] = "ready"]
                  /\ image_path' = [image_path EXCEPT ![w] = upload_path[w]]
          /\ UNCHANGED exc
       \/ /\ exc' = [exc EXCEPT ![w] = "upload could not be written"]
          /\ steps' = [steps EXCEPT ![w] = Append(@, "SaveFailed")]
          /\ pc' = [pc EXCEPT ![w] = "raised"]
          /\ UNCHANGED <<uploads, eff, image_path>>
    /\ UNCHANGED <<extracted, _extractor_instance, loadCalls, requests, endpoint,
                   file, file_extension, upload_path, results, response>>

\* convert_from_path(pdf_path, first_page, last_page): the number of images
\* it returns, or that it raised (no file, or no valid PDF)
convert_from_path(present, pages, page_number) ==
    IF ~present \/ pages = 0 THEN [raised |-> TRUE, images |-> 0]
    ELSE [raised |-> FALSE, images |-> IF page_number <= pages THEN 1 ELSE 0]

\* a conversion failure is logged and the request goes on
Convert_goes_on(w) ==
    /\ pc[w] = "saved"
    /\ LET c == convert_from_path(upload_path[w] \in uploads, file[w].pages,
                                  file[w].page_number)
           png == with_suffix(upload_path[w], PNG)
       IN  IF c.raised \/ c.images = 0
           THEN /\ image_path' = [image_path EXCEPT ![w] = png]
                /\ steps' = [steps EXCEPT ![w] = Append(@, "ConvertFailed")]
                /\ pc' = [pc EXCEPT ![w] = "ready"]
                /\ UNCHANGED <<uploads, eff, exc>>
           ELSE /\ uploads' = uploads \cup { png }
                /\ eff' = [eff EXCEPT ![w].staged = @ \cup { png },
                                      ![w].conversions = @ + 1]
                /\ image_path' = [image_path EXCEPT ![w] = png]
                /\ steps' = [steps EXCEPT ![w] = Append(@, "Converted")]
                /\ pc' = [pc EXCEPT ![w] = "ready"]
                /\ UNCHANGED exc
    /\ UNCHANGED <<extracted, _extractor_instance, loadCalls, requests, endpoint,
                   file, file_extension, upload_path, results, response>>

\* lines 156-157 and convert_pdf_to_image
Convert(w) ==
    /\ pc[w] = "saved"
    /\ LET c == convert_from_path(upload_path[w] \in uploads, file[w].pages,
                                  file[w].page_number)
           png == with_suffix(upload_path[w], PNG)
       IN  IF c.raised \/ c.images = 0
           THEN /\ exc' = [exc EXCEPT ![w] =
                       <<"PDF conversion failed",
                         IF c.raised THEN "cannot read PDF" ELSE "No images found in PDF page">>]
                /\ steps' = [steps EXCEPT ![w] = Append(@, "ConvertFailed")]
                /\ pc' = [pc EXCEPT ![w] = "raised"]
                /\ UNCHANGED <<uploads, eff, image_path>>
           ELSE /\ uploads' = uploads \cup { png }
                /\ eff' = [eff EXCEPT ![w].staged = @ \cup { png },
                                      ![w].conversions = @ + 1]
                /\ image_path' = [image_path EXCEPT ![w] = png]
                /\ steps' = [steps EXCEPT ![w] = Append(@, "Converted")]
                /\ pc' = [pc EXCEPT ![w] = "ready"]
                /\ UNCHANGED exc
    /\ UNCHANGED <<extracted, _extractor_instance, loadCalls, requests, endpoint,
                   file, file_extension, upload_path, results, response>>

\* lines 161-163: get_extractor() and extractor.extract_fields(image_path)
Infer(w) ==
    /\ pc[w] = "ready"
    /\ _extractor_instance[w] # None \/ loadCalls[w] < MaxLoadCalls
    /\ \E lo \in LoadChoices(w), dev \in Devices, det \in DetectorOutcomes :
         LET g == get_extractor(_extractor_instance[w], lo, dev, loadCalls[w])
         IN  /\ _extractor_instance' = [_extractor_instance EXCEPT ![w] = g.instance]
             /\ loadCalls' = [loadCalls EXCEPT ![w] = g.loads]
             /\ steps' = [steps EXCEPT ![w] = Append(@, "Inferred")]
             /\ IF g.raised
                THEN /\ exc' = [exc EXCEPT ![w] = "model could not be loaded"]
                     /\ eff' = [eff EXCEPT ![w].loads = @ + (g.loads - loadCalls[w])]
                     /\ pc' = [pc EXCEPT ![w] = "raised"]
                     /\ UNCHANGED <<extracted, results>>
                ELSE LET r == extract_fields(g.instance, imread_ok(w), det, file[w].no)
                     IN  /\ results' = [results EXCEPT ![w] = r.results]
                         /\ extracted' = extracted \cup r.written
                         /\ eff' = [eff EXCEPT ![w].loads = @ + (g.loads - loadCalls[w]),
                                               ![w].returned = g.instance,
                                               ![w].crops = @ \cup r.written,
                                               ![w].detector = @ + r.detector,
                                               ![w].boxes = r.boxes]
                         /\ pc' = [pc EXCEPT ![w] = "inferred"]
                         /\ UNCHANGED exc
    /\ UNCHANGED <<uploads, requests, endpoint, file, file_extension, upload_path,
                   image_path, response>>

\* lines 165-170: every entry of extracted_images gets its url
with_urls(res) ==
    IF "extracted_images" \in DOMAIN res
    THEN [res EXCEPT !.extracted_images =
             [k \in DOMAIN @ |->
                 [ path |-> @[k].path, confidence |-> @[k].confidence,
                   bbox |-> @[k].bbox, url |-> <<"/extracted", path_name(@[k].path)>> ]]]
    ELSE res

\* lines 172-177
metadata(f, ext) ==
    [ filename |-> f.filename, file_type |-> ext,
      page_number |-> IF ext = PDF THEN f.page_number ELSE 0 ]

\* lines 165-179: the success response is built
Respond(w) ==
    /\ pc[w] = "inferred"
    /\ response' = [response EXCEPT ![w] =
           JSONResponse(with_urls(results[w]) @@
                        [metadata |-> metadata(file[w], file_extension[w])])]
    /\ steps' = [steps EXCEPT ![w] = Append(@, "Responded")]
    /\ pc' = [pc EXCEPT ![w] = "responded"]
    /\ UNCHANGED <<uploads, extracted, _extractor_instance, loadCalls, requests,
                   endpoint, file, file_extension, upload_path, image_path, results,
                   exc, eff>>

\* lines 181-183: any exception of the try block becomes a 500
HandleException(w) ==
    /\ pc[w] = "raised"
    /\ response' = [response EXCEPT ![w] = HTTPException(500, exc[w])]
    /\ steps' = [steps EXCEPT ![w] = Append(@, "Responded")]
    /\ pc' = [pc EXCEPT ![w] = "responded"]
    /\ UNCHANGED <<uploads, extracted, _extractor_instance, loadCalls, requests,
                   endpoint, file, file_extension, upload_path, image_path, results,
                   exc, eff>>

\* lines 185-195, the finally block: what is left of the directory `dir`.
\* fail names the unlink that raises ("none", "upload" or "png").
finally_cleanup_forgets_png(dir, path, ext, fail) ==
    IF fail = "upload" THEN dir ELSE dir \ { path }

finally_cleanup(dir, path, ext, fail) ==
    IF fail = "upload" THEN dir
    ELSE IF fail = "png" \/ ext # PDF THEN dir \ { path }
    ELSE dir \ { path, with_suffix(path, PNG) }

CleanupFiles(w) ==
    /\ pc[w] = "responded"
    /\ \E fail \in {"none", "upload", "png"} :
         /\ fail = "upload" => upload_path[w] \in uploads
         /\ fail = "png" => /\ file_extension[w] = PDF
                            /\ with_suffix(upload_path[w], PNG) \in uploads
         /\ uploads' = finally_cleanup(uploads, upload_path[w], file_extension[w], fail)
         /\ steps' = [steps EXCEPT ![w] =
                Append(@, IF fail = "none" THEN "CleanedUp" ELSE "CleanupFailed")]
    /\ pc' = [pc EXCEPT ![w] = "done"]
    /\ UNCHANGED <<extracted, _extractor_instance, loadCalls, requests, endpoint,
                   file, file_extension, upload_path, image_path, results, exc,
                   response, eff>>

\* GET /health served by process w
health_check(w) ==
    /\ Idle(w)
    /\ _extractor_instance[w] # None \/ loadCalls[w] < MaxLoadCalls
    /\ \E lo \in LoadChoices(w), dev \in Devices :
         LET g == get_extractor(_extractor_instance[w], lo, dev, loadCalls[w])
         IN  /\ _extractor_instance' = [_extractor_instance EXCEPT ![w] = g.instance]
             /\ loadCalls' = [loadCalls EXCEPT ![w] = g.loads]
             /\ eff' = [eff EXCEPT ![w] =
                    [NoEffects EXCEPT !.loads = g.loads - loadCalls[w],
                                      !.returned = IF g.raised THEN None ELSE g.instance]]
             /\ response' = [response EXCEPT ![w] =
                  [ status |-> 200,
                    body   |->
                      IF g.raised
                      THEN [status |-> "unhealthy", error |-> "model could not be loaded"]
                      ELSE [ status       |-> "healthy",
                             model_loaded |-> g.instance.model # "None",
                             model_type   |-> g.instance.model_type,
                             device       |-> g.instance.device ] ]]
    /\ NewFrame(w, "health", None, <<>>)
    /\ pc' = [pc EXCEPT ![w] = "done"]
    /\ UNCHANGED <<uploads, extracted, requests>>

\* DELETE /cleanup: `removed` are the files unlinked before the loop ends,
\* normally or by an unlink that raises.  Returns the response and what is
\* left of uploads/ and of uploads/extracted/.
cleanup_uploads_recursive(entries, crops, removed) ==
    [ response  |-> JSONResponse(
                      [ message |-> <<"Cleaned up", Cardinality(entries) + Cardinality(crops), "files">>,
                        count |-> Cardinality(entries) + Cardinality(crops) ]),
      uploads   |-> {},
      extracted |-> {} ]

cleanup_uploads(entries, crops, removed) ==
    LET files == { e \in entries : is_file(e) }
    IN  [ response  |->
              IF removed = files
              THEN JSONResponse([ message |-> <<"Cleaned up", Cardinality(removed), "files">>,
                                  count |-> Cardinality(removed) ])
              ELSE HTTPException(500, "unlink failed"),
          uploads   |-> files \ removed,
          extracted |-> crops ]

CleanupUploads(w) ==
    /\ Idle(w)
    /\ \E removed \in SUBSET uploads :
         LET c == cleanup_uploads(glob_uploads(uploads), extracted, removed)
         IN  /\ uploads' = c.uploads
             /\ extracted' = c.extracted
             /\ response' = [response EXCEPT ![w] = c.response]
    /\ eff' = [eff EXCEPT ![w] =
           [NoEffects EXCEPT !.before = uploads, !.crops_before = extracted]]
    /\ NewFrame(w, "cleanup", None, <<>>)
    /\ pc' = [pc EXCEPT ![w] = "done"]
    /\ UNCHANGED <<_extractor_instance, loadCalls, requests>>

Init ==
    /\ uploads = {}
    /\ extracted = {}
    /\ _extractor_instance = [w \in Workers |-> None]
    /\ loadCalls = [w \in Workers |-> 0]
    /\ requests = 0
    /\ pc = [w \in Workers |-> "idle"]
    /\ endpoint = [w \in Workers |-> "none"]
    /\ file = [w \in Workers |-> None]
    /\ file_extension = [w \in Workers |-> None]
    /\ upload_path = [w \in Workers |-> None]
    /\ image_path = [w \in Workers |-> None]
    /\ results = [w \in Workers |-> None]
    /\ exc = [w \in Workers |-> None]
    /\ response = [w \in Workers |-> None]
    /\ steps = [w \in Workers |-> <<>>]
    /\ eff = [w \in Workers |-> NoEffects]

\* what one process does
Serve(w) ==
        \/ Receive(w)
        \/ Validate(w)
        \/ SaveUpload(w)
        \/ Convert(w)
        \/ Infer(w)
        \/ Respond(w)
        \/ HandleException(w)
        \/ CleanupFiles(w)
        \/ health_check(w)
        \/ CleanupUploads(w)

\* uvicorn.run(app, ...) of main.py: one process
Next == Serve("w1")

Spec == Init /\ [][Next]_vars

\* a second process of the same application, sharing uploads/, that serves
\* DELETE /cleanup while the first one is inside extract_passport
ConcurrentNext == Serve("w1") \/ CleanupUploads("w2")

ConcurrentSpec == Init /\ [][ConcurrentNext]_vars

(***************************************************************************)
(* Properties                                                              *)
(***************************************************************************)

\* process w has answered a POST /extract
Done(w) == endpoint[w] = "extract" /\ pc[w] = "done"

\* the response of the request of w is determined
Answered(w) == endpoint[w] = "extract" /\ pc[w] \in {"responded", "done"}

Last(s) == s[Len(s)]

Has(s, x) == \E i \in 1..Len(s) : s[i] = x

Structured(body) ==
    /\ DOMAIN body = {"success", "error", "fields"}
    /\ body.success = FALSE
    /\ body.fields = EmptyDict

LoadFailed(w) == Has(steps[w], "Inferred") /\ exc[w] = "model could not be loaded"

ImageLoadFailed(w) ==
    /\ Has(steps[w], "Inferred")
    /\ results[w] # None
    /\ results[w].success = FALSE
    /\ results[w].error = "Failed to load image"

\* C1: every failure of the inference step of POST /extract (model cannot be
\* loaded, image cannot be loaded) is answered with status 500 and the body
\* {success: false, error, fields: {}}.
C1_InferenceFailureIs500Structured ==
    \A w \in Workers :
        (Answered(w) /\ (LoadFailed(w) \/ ImageLoadFailed(w)))
            => (response[w].status = 500 /\ Structured(response[w].body))

StagedGone(w) ==
    /\ upload_path[w] \notin uploads
    /\ file_extension[w] = PDF => with_suffix(upload_path[w], PNG) \notin uploads

\* C2 as stated: after a validated POST /extract has finished, its staged
\* upload (and the PNG of a PDF) is gone from uploads/ and its crops exist.
C2_StagedFilesGone ==
    \A w \in Workers :
        (Done(w) /\ Has(steps[w], "Validated"))
            => (StagedGone(w) /\ eff[w].crops \subseteq extracted)

\* C2, amended: after a validated POST /extract has finished, its crops
\* exist; its staged upload (and the PNG of a PDF) is gone from uploads/
\* unless an unlink of the cleanup step raised; and the cleanup step, failed
\* or not, leaves the response as it was determined.
C2_CleanupBestEffort ==
    /\ [](\A w \in Workers :
            (Done(w) /\ Has(steps[w], "Validated"))
                => /\ eff[w].crops \subseteq extracted
                   /\ Last(steps[w]) \in {"CleanedUp", "CleanupFailed"}
                   /\ Last(steps[w]) = "CleanedUp" => StagedGone(w))
    /\ [][\A w \in Workers :
            (pc[w] = "responded" /\ pc'[w] = "done")
                => /\ response'[w] = response[w]
                   /\ extracted' = extracted]_vars

C2_Witness ==
    \E w \in Workers :
        /\ Done(w)
        /\ response[w].status = 200
        /\ file_extension[w] = PDF
        /\ eff[w].conversions = 1
        /\ eff[w].crops # {}
        /\ Last(steps[w]) = "CleanedUp"

ClaimedAllowSet == {PDF, JPG, JPEG, PNG, TIFF, BMP}

\* C3: a file name whose lower-cased extension is outside the allow-set is
\* answered with 400 and a message listing the allow-set, and the request
\* has no side effect: nothing written, nothing converted, the detector
\* neither loaded nor invoked.
C3_DisallowedRejected ==
    \A w \in Workers :
        ( /\ endpoint[w] = "extract"
          /\ pc[w] # "received"
          /\ lower(suffix(file[w].filename)) \notin ClaimedAllowSet )
            => /\ pc[w] = "done"
               /\ response[w].status = 400
               /\ ClaimedAllowSet \subseteq response[w].body.detail[2]
               /\ eff[w] = NoEffects
               /\ ~Has(steps[w], "Inferred")

C3_Witness ==
    \E w \in Workers :
        /\ Done(w)
        /\ file[w].filename = <<".","p","n","g">>
        /\ response[w].status = 400

\* the field name of a class id, as the specification gives it
ClaimedFieldName(c) ==
    IF c = 0 THEN "photo" ELSE IF c = 1 THEN "signature" ELSE "field_" \o ToString(c)

\* the result dict of a detector call that returned boxes is built
YoloResult(w) ==
    /\ endpoint[w] = "extract"
    /\ pc[w] \in {"inferred", "responded", "done"}
    /\ eff[w].detector = 1
    /\ results[w].success

LastOfClass(boxes, c) ==
    CHOOSE i \in 1..Len(boxes) :
        boxes[i].cls = c /\ \A j \in (i + 1)..Len(boxes) : boxes[j].cls # c

\* C4: extracted_images has one entry per distinct detected class, and the
\* entry of a class carries path, confidence and box of the last detection
\* of that class; one crop file per detection has been written, and
\* detections lists every detection in order.
C4_LastDetectionWins ==
    \A w \in Workers :
        YoloResult(w) =>
            LET boxes == eff[w].boxes
                images == results[w].extracted_images
                dets == results[w].detections
            IN  /\ DOMAIN images = { ClaimedFieldName(boxes[i].cls) : i \in 1..Len(boxes) }
                /\ \A i \in 1..Len(boxes) :
                     LET c == boxes[i].cls
                         k == LastOfClass(boxes, c)
                         e == images[ClaimedFieldName(c)]
                     IN  /\ e.confidence = boxes[k].conf
                         /\ e.bbox = bbox_dict(boxes[k])
                         /\ e.path = <<EXTRACTED_DIR,
                                       [field |-> ClaimedFieldName(c),
                                        hex |-> uuid4(file[w].no, k)]>>
                /\ Cardinality(eff[w].crops) = Len(boxes)
                /\ eff[w].crops \subseteq extracted
                /\ Len(dets) = Len(boxes)
                /\ \A i \in 1..Len(boxes) :
                     /\ dets[i].field = ClaimedFieldName(boxes[i].cls)
                     /\ dets[i].confidence = boxes[i].conf
                     /\ dets[i].bbox = bbox_dict(boxes[i])

C4_Witness ==
    \E w \in Workers :
        /\ YoloResult(w)
        /\ pc[w] = "done"
        /\ \E i, j \in 1..Len(eff[w].boxes) :
             /\ i < j
             /\ eff[w].boxes[i].cls = eff[w].boxes[j].cls
             /\ eff[w].boxes[i].conf # eff[w].boxes[j].conf
        /\ Cardinality(DOMAIN results[w].extracted_images) = 1

\* C5: the success response has, for every detection of class c, an entry
\* under the field name of c whose confidence and box are those of a
\* detection of class c and whose url names a crop file that exists in
\* uploads/extracted/ when the response is returned and after the cleanup.
C5_DetectionsInResponse ==
    \A w \in Workers :
        (Answered(w) /\ eff[w].detector = 1 /\ response[w].status = 200
                     /\ response[w].body.success)
            => \A i \in 1..Len(eff[w].boxes) :
                 LET c == eff[w].boxes[i].cls
                     images == response[w].body.extracted_images
                 IN  /\ ClaimedFieldName(c) \in DOMAIN images
                     /\ \E j \in 1..Len(eff[w].boxes) :
                          /\ eff[w].boxes[j].cls = c
                          /\ images[ClaimedFieldName(c)].confidence = eff[w].boxes[j].conf
                          /\ images[ClaimedFieldName(c)].bbox = bbox_dict(eff[w].boxes[j])
                     /\ \E name \in extracted :
                          /\ images[ClaimedFieldName(c)].url = <<"/extracted", name>>
                          /\ name.field = ClaimedFieldName(c)

C5_Witness ==
    \E w \in Workers :
        /\ Done(w)
        /\ response[w].status = 200
        /\ file_extension[w] = PDF
        /\ "extracted_images" \in DOMAIN response[w].body
        /\ DOMAIN response[w].body.extracted_images = {"photo", "field_7"}

CleanupAnswered(w) == endpoint[w] = "cleanup" /\ pc[w] = "done"

\* C6 as stated: DELETE /cleanup removes the N regular files of uploads/,
\* returns count = N and leaves uploads/extracted/ unchanged.
C6_CleanupRemovesAll ==
    \A w \in Workers :
        CleanupAnswered(w)
            => /\ response[w].status = 200
               /\ response[w].body.count = Cardinality(eff[w].before)
               /\ uploads \cap eff[w].before = {}
               /\ extracted = eff[w].crops_before

\* C6, amended: DELETE /cleanup leaves uploads/extracted/ unchanged; unless
\* an unlink raises it removes the N regular files of uploads/ and returns
\* count = N; when an unlink raises it answers 500.
C6_CleanupRemovesAllUnlessUnlinkFails ==
    \A w \in Workers :
        CleanupAnswered(w)
            => /\ extracted = eff[w].crops_before
               /\ response[w].status \in {200, 500}
               /\ response[w].status = 200
                    => /\ response[w].body.count = Cardinality(eff[w].before)
                       /\ uploads \cap eff[w].before = {}
                       /\ uploads = {}

C6_Witness ==
    \E w \in Workers :
        /\ CleanupAnswered(w)
        /\ response[w].status = 200
        /\ response[w].body.count = 2
        /\ extracted # {}

\* C7 as stated: load_model is invoked once per process; every use of
\* get_extractor after the first returns the instance without loading.
C7_LoadedOnce == \A w \in Workers : loadCalls[w] <= 1

\* C7, amended: load_model succeeds at most once per process: once the
\* singleton is set it is never reset or replaced, no later use of
\* get_extractor invokes load_model, and every use returns the singleton; a
\* failed load leaves the singleton unset.
C7_SingletonOnceSet ==
    /\ [](\A w \in Workers :
            /\ eff[w].returned # None => eff[w].returned = _extractor_instance[w]
            /\ _extractor_instance[w] # None
                 => _extractor_instance[w].oid = loadCalls[w])
    /\ [][\A w \in Workers :
            _extractor_instance[w] # None
                => /\ _extractor_instance'[w] = _extractor_instance[w]
                   /\ loadCalls'[w] = loadCalls[w]]_vars

C7_Witness ==
    \E w \in Workers :
        /\ Done(w)
        /\ eff[w].returned # None
        /\ eff[w].returned = _extractor_instance[w]
        /\ eff[w].loads = 0
        /\ loadCalls[w] = 2

HealthAnswered(w) == endpoint[w] = "health" /\ pc[w] = "done"

\* C8: GET /health never raises: it answers "healthy" with model_loaded,
\* model_type and device of the singleton, or, when the load fails,
\* "unhealthy" with the error string; after a failed load the singleton is
\* unset, so the next use of get_extractor invokes load_model again.
C8_HealthNeverRaises ==
    /\ [](\A w \in Workers :
            HealthAnswered(w)
                => /\ response[w].status = 200
                   /\ \/ /\ response[w].body.status = "healthy"
                         /\ _extractor_instance[w] # None
                         /\ response[w].body.model_loaded
                              = (_extractor_instance[w].model # "None")
                         /\ response[w].body.model_type = _extractor_instance[w].model_type
                         /\ response[w].body.device = _extractor_instance[w].device
                      \/ /\ response[w].body.status = "unhealthy"
                         /\ response[w].body.error = "model could not be loaded"
                         /\ _extractor_instance[w] = None)
    /\ [][\A w \in Workers :
            (_extractor_instance[w] = None /\ (health_check(w) \/ Infer(w)))
                => loadCalls'[w] = loadCalls[w] + 1]_vars

C8_Witness ==
    \E w \in Workers :
        /\ HealthAnswered(w)
        /\ response[w].body.status = "healthy"
        /\ response[w].body.model_loaded = FALSE
        /\ loadCalls[w] = 2

\* the states of the specification, in their order, for an extension
ClaimedOrder(ext) ==
    IF ext = PDF
    THEN <<"Received", "Validated", "Converted", "Inferred", "Responded", "CleanedUp">>
    ELSE <<"Received", "Validated", "Inferred", "Responded", "CleanedUp">>

\* the history of a request in the words of the specification
RECURSIVE Projected(_)
Projected(s) ==
    IF s = <<>> THEN <<>>
    ELSE LET x == Head(s)
         IN  IF x \in {"Received", "Validated", "Converted", "Inferred", "Responded", "CleanedUp"}
             THEN <<x>> \o Projected(Tail(s))
             ELSE IF x = "CleanupFailed" THEN <<"CleanedUp">> \o Projected(Tail(s))
             ELSE Projected(Tail(s))

IsPrefix(p, s) == Len(p) <= Len(s) /\ SubSeq(s, 1, Len(p)) = p

\* a prefix of the order, or such a prefix cut short by a failure and
\* followed by Responded and CleanedUp
InOrder(s, order) ==
    \/ IsPrefix(s, order)
    \/ \E n \in 1..Len(s) :
         /\ IsPrefix(SubSeq(s, 1, n), order)
         /\ ~Has(SubSeq(s, 1, n), "Responded")
         /\ IsPrefix(SubSeq(s, n + 1, Len(s)), <<"Responded", "CleanedUp">>)

\* C9: a POST /extract request passes through Received, Validated,
\* Converted (exactly for a PDF), Inferred, Responded, CleanedUp in this
\* order only; inference is not invoked before validation succeeded and, for
\* a PDF, before exactly one page was rasterized; a conversion failure ends
\* in a 500 without inference; no step happens twice.
C9_StepOrder ==
    \A w \in Workers :
        (endpoint[w] = "extract" /\ pc[w] # "received") =>
            LET s == Projected(steps[w])
                ext == lower(suffix(file[w].filename))
            IN  /\ InOrder(s, ClaimedOrder(ext))
                /\ \A i, j \in 1..Len(steps[w]) : i # j => steps[w][i] # steps[w][j]
                /\ Has(s, "Inferred")
                     => /\ Has(s, "Validated")
                        /\ ext \in ClaimedAllowSet
                        /\ Has(s, "Converted") <=> ext = PDF
                        /\ ext = PDF => /\ eff[w].conversions = 1
                                        /\ with_suffix(upload_path[w], PNG) \in eff[w].staged
                /\ Has(steps[w], "ConvertFailed")
                     => /\ ~Has(s, "Inferred")
                        /\ eff[w].loads = 0 /\ eff[w].detector = 0
                        /\ Answered(w) => response[w].status = 500
                /\ eff[w].conversions <= 1 /\ eff[w].detector <= 1

C9_Witness ==
    \E w \in Workers :
        /\ Done(w)
        /\ response[w].status = 200
        /\ Projected(steps[w]) = ClaimedOrder(PDF)
        /\ file_extension[w] = PDF

\* C10: while a POST /extract is between saving its upload and reading it
\* for inference, its staged file and its rasterized PNG are in uploads/,
\* whatever DELETE /cleanup requests run meanwhile.
C10_StagedFileSurvivesCleanup ==
    \A w \in Workers :
        /\ (endpoint[w] = "extract" /\ pc[w] = "saved") => upload_path[w] \in uploads
        /\ (endpoint[w] = "extract" /\ pc[w] = "ready")
              => (upload_path[w] \in uploads /\ image_path[w] \in uploads)

====
